---- MODULE Spec2Model ----
(***************************************************************************)
(* Webflow -> Zoho CRM webhook (src/api/webhook.js).                       *)
(*                                                                         *)
(* The file holds two implementations of the same handler: a fetch-based   *)
(* one (lines 1-244) and an axios-based one (lines 246-480).  Each has its *)
(* own module-level accessTokenCache.  Handler invocations interleave at   *)
(* their await points (the token exchange and the CRM POST).               *)
(*                                                                         *)
(* Strings that the code takes apart (names, e-mails) are sequences of     *)
(* atoms: an atom is " ", "@", "." or a maximal run of other characters.   *)
(* JavaScript objects are functions whose DOMAIN is the set of own         *)
(* properties, so a missing property is a name outside the DOMAIN.         *)
(***************************************************************************)
EXTENDS Integers, Sequences, FiniteSets, TLC

VARIABLES
    deployed,   \* the implementations that are running ({"fetch"}, {"axios"} or both side by side)
    now,        \* Date.now(), in milliseconds
    ticks,      \* number of clock advances so far (bounds the run)
    cache,      \* cache[i]: accessTokenCache of implementation i
    exch,       \* exch[i]: what the exchange that last wrote cache[i] was (observer)
    pc,         \* pc[i][p]: position of invocation p of implementation i
    tok,        \* tok[i][p]: the accessToken local of createZohoLead (sent as Authorization)
    lead,       \* lead[i][p]: the lead record handed to createZohoLead (sent as data[0])
    sentAt,     \* sentAt[i][p]: when the pending token request was sent
    authCalls,  \* authCalls[i][p]: authorization exchanges issued by the invocation
    crmCalls,   \* crmCalls[i][p]: CRM POSTs issued by the invocation
    resp,       \* resp[i][p]: the HTTP response sent, or NoResp
    authSeen,   \* authSeen[i][p]: the kind of reply the authorization server gave (observer)
    crmSeen,    \* crmSeen[i][p]: the kind of reply the CRM gave to the invocation (observer)
    form        \* form[p]: the request that invocation p received (observer)

vars ==
    <<deployed, now, ticks, cache, exch, pc, tok, lead, sentAt, authCalls, crmCalls, resp,
      authSeen, crmSeen, form>>

-----------------------------------------------------------------------------
(* Bounds and program constants *)

NumProcs ==
    2

MaxTicks ==
    1

SafetyMarginMs ==
    60000

MsPerSecond ==
    1000

Impls ==
    {"fetch", "axios"}

Procs ==
    1..NumProcs

\* The clock advances in steps of 61 s, one second more than the safety margin:
\* a 121 s token expires in the cache exactly one step after it was cached, and
\* a reply that takes one step is slower than the margin.
TickSteps ==
    {SafetyMarginMs + MsPerSecond}

-----------------------------------------------------------------------------
(* JavaScript values *)

Null ==
    "<null>"

Undefined ==
    "<undefined>"

\* Truthiness of a token-like value (string, null or undefined).
Truthy(v) ==
    v \notin {Null, Undefined, ""}

\* Numbers: a finite integer or NaN.
Num(n) ==
    [nan |-> FALSE, v |-> n]

NaN ==
    [nan |-> TRUE, v |-> 0]

\* a < b in JavaScript: false as soon as one side is NaN.
NumLt(a, b) ==
    ~a.nan /\ ~b.nan /\ a.v < b.v

\* obj.k, or d when obj has no property k.
Get(obj, k, d) ==
    IF k \in DOMAIN obj THEN obj[k] ELSE d

EmptyObj ==
    <<>>

\* String atoms.
Space ==
    " "

NullStr ==
    <<"<null>">>

IsBlankAtom(a) ==
    a = Space

-----------------------------------------------------------------------------
(* String helpers: split(' '), slice(1).join(' '), trim() *)

RECURSIVE SplitSpace(_)
\* s.split(' '): the pieces between the spaces (empty pieces kept).
SplitSpace(s) ==
    IF \A k \in 1..Len(s) : s[k] # Space
    THEN <<s>>
    ELSE LET k == CHOOSE j \in 1..Len(s) :
                      s[j] = Space /\ \A h \in 1..(j - 1) : s[h] # Space
         IN  <<SubSeq(s, 1, k - 1)>> \o SplitSpace(SubSeq(s, k + 1, Len(s)))

RECURSIVE JoinSpace(_)
\* parts.join(' ')
JoinSpace(parts) ==
    IF Len(parts) = 0 THEN <<>>
    ELSE IF Len(parts) = 1 THEN parts[1]
    ELSE parts[1] \o <<Space>> \o JoinSpace(Tail(parts))

RECURSIVE TrimLeft(_)
TrimLeft(s) ==
    IF Len(s) > 0 /\ IsBlankAtom(s[1]) THEN TrimLeft(Tail(s)) ELSE s

RECURSIVE TrimRight(_)
TrimRight(s) ==
    IF Len(s) > 0 /\ IsBlankAtom(s[Len(s)]) THEN TrimRight(SubSeq(s, 1, Len(s) - 1)) ELSE s

Trim(s) ==
    TrimRight(TrimLeft(s))

\* One or more atoms, none of them whitespace or "@": [^\s@]+
NoSpaceAt(s) ==
    Len(s) > 0 /\ \A k \in 1..Len(s) : s[k] \notin {Space, "@"}

\* /^[^\s@]+@[^\s@]+\.[^\s@]+$/.test(s)
EmailRegexTest(s) ==
    \E i \in 1..Len(s) : \E j \in (i + 1)..Len(s) :
        /\ s[i] = "@"
        /\ s[j] = "."
        /\ NoSpaceAt(SubSeq(s, 1, i - 1))
        /\ NoSpaceAt(SubSeq(s, i + 1, j - 1))
        /\ NoSpaceAt(SubSeq(s, j + 1, Len(s)))

-----------------------------------------------------------------------------
(* Responses *)

NoResp ==
    [status |-> 0, headers |-> {}, body |-> EmptyObj]

NoLead ==
    EmptyObj

\* addCORSHeaders(res)
CORSHeaders ==
    { <<"Access-Control-Allow-Origin", "*">>,
      <<"Access-Control-Allow-Methods", "POST, OPTIONS">>,
      <<"Access-Control-Allow-Headers", "Content-Type">> }

\* new Date().toISOString(): the field is present; the instant is not modelled.
IsoTimestamp ==
    "ISO-8601"

\* res.status(code).json({success: false, error: message, timestamp})
ErrorResponse(code, message) ==
    [status |-> code, headers |-> CORSHeaders,
     body |-> [success |-> FALSE, error |-> message, timestamp |-> IsoTimestamp]]

\* sendErrorResponse(res, error, statusCode): error.message || 'An error occurred'
SendErrorResponse(message, code) ==
    ErrorResponse(code, IF message = "" THEN "An error occurred" ELSE message)

\* The fetch handler's success response; an undefined leadId is dropped by JSON.stringify.
FetchSuccessResponse(leadId) ==
    [status |-> 200, headers |-> CORSHeaders,
     body |-> IF leadId = Undefined
              THEN [success |-> TRUE, message |-> "Lead created successfully in Zoho CRM",
                    timestamp |-> IsoTimestamp]
              ELSE [success |-> TRUE, message |-> "Lead created successfully in Zoho CRM",
                    leadId |-> leadId, timestamp |-> IsoTimestamp]]

\* sendSuccessResponse(res, message) of the axios handler: no leadId.
SendSuccessResponse(message) ==
    [status |-> 200, headers |-> CORSHeaders,
     body |-> [success |-> TRUE, message |-> message, timestamp |-> IsoTimestamp]]

\* A preflight answer sent before the CORS headers are set.
PreflightWithoutCORS ==
    [status |-> 200, headers |-> {}, body |-> EmptyObj]

\* res.status(200).end()
PreflightResponse ==
    [status |-> 200, headers |-> CORSHeaders, body |-> EmptyObj]

ErrAuth ==
    "Failed to authenticate with Zoho"

ErrCrm ==
    "Failed to create lead in Zoho CRM"

ErrTypeUndefinedName ==
    "Cannot read properties of undefined (reading 'name')"

ErrTypeUndefinedId ==
    "Cannot read properties of undefined (reading 'id')"

-----------------------------------------------------------------------------
(* parseFormData, validateFormData, mapFormDataToZohoLead *)

\* parseFormData(body).  A string body is a list of decoded key/value pairs
\* (URLSearchParams); a later pair with the same key overwrites an earlier one.
ParseFormData(body) ==
    IF body.kind = "string"
    THEN LET keys == { body.pairs[k][1] : k \in 1..Len(body.pairs) }
             last(key) == CHOOSE k \in 1..Len(body.pairs) :
                              /\ body.pairs[k][1] = key
                              /\ \A h \in (k + 1)..Len(body.pairs) : body.pairs[h][1] # key
         IN  [defined |-> TRUE, obj |-> [key \in keys |-> body.pairs[last(key)][2]]]
    ELSE IF body.kind = "object"
    THEN [defined |-> TRUE, obj |-> body.obj]
    ELSE [defined |-> FALSE, obj |-> EmptyObj]

\* A string property that is present and not ''.
HasText(fd, k) ==
    k \in DOMAIN fd /\ Len(fd[k]) > 0

\* validateFormData(formData): the list of error messages.
ValidateFormData(fd) ==
    (IF ~HasText(fd, "name") \/ Len(Trim(fd["name"])) = 0
     THEN <<"Name is required">> ELSE <<>>)
    \o
    (IF ~HasText(fd, "email") \/ Len(Trim(fd["email"])) = 0
     THEN <<"Email is required">> ELSE <<>>)
    \o
    (IF HasText(fd, "email") /\ ~EmailRegexTest(fd["email"])
     THEN <<"Invalid email format">> ELSE <<>>)

RECURSIVE JoinComma(_)
\* errors.join(', ')
JoinComma(errors) ==
    IF Len(errors) = 0 THEN ""
    ELSE IF Len(errors) = 1 THEN errors[1]
    ELSE errors[1] \o ", " \o JoinComma(Tail(errors))

\* `Validation failed: ${validationErrors.join(', ')}`
ValidationMessage(errors) ==
    "Validation failed: " \o JoinComma(errors)

\* x || null for an optional string field
OrNull(fd, k) ==
    IF HasText(fd, k) THEN fd[k] ELSE NullStr

\* s || d for strings
OrDefault(s, d) ==
    IF Len(s) > 0 THEN s ELSE d

\* A switch whose newsletter case forgets the Lead_Status override.
ApplyFormTypeSourceOnly(baseData, formType) ==
    IF formType = <<"contact">>
    THEN [baseData EXCEPT !.Lead_Source = "Website - Contact Form"]
    ELSE IF formType = <<"newsletter">>
    THEN [baseData EXCEPT !.Lead_Source = "Website - Newsletter"]
    ELSE baseData

\* The switch on formType (lines 110-124 and 341-355).
ApplyFormType(baseData, formType) ==
    IF formType = <<"contact">>
    THEN [baseData EXCEPT !.Lead_Source = "Website - Contact Form"]
    ELSE IF formType = <<"newsletter">>
    THEN [baseData EXCEPT !.Lead_Source = "Website - Newsletter",
                          !.Lead_Status = "Qualified"]
    ELSE baseData

\* First_Name and Last_Name of the fetch implementation (lines 94-96).
FetchNames(fd) ==
    LET nameParts == SplitSpace(IF HasText(fd, "name") THEN fd["name"]
                                ELSE <<"Unknown", Space, "User">>)
    IN  [first |-> nameParts[1],
         last  |-> OrDefault(JoinSpace(Tail(nameParts)), <<"User">>)]

\* First_Name and Last_Name of the axios implementation (lines 330-331).
AxiosNames(fd) ==
    IF "name" \notin DOMAIN fd
    THEN [first |-> <<"Unknown">>, last |-> <<"User">>]
    ELSE LET parts == SplitSpace(fd["name"])
         IN  [first |-> OrDefault(parts[1], <<"Unknown">>),
              last  |-> OrDefault(JoinSpace(Tail(parts)), <<"User">>)]

\* mapFormDataToZohoLead(formData, formType) of implementation i.
MapFormDataToZohoLead(i, fd, formType) ==
    LET names == IF i = "fetch" THEN FetchNames(fd) ELSE AxiosNames(fd)
        baseData == [First_Name  |-> names.first,
                     Last_Name   |-> names.last,
                     Email       |-> Get(fd, "email", <<Undefined>>),
                     Phone       |-> OrNull(fd, "phone"),
                     Company     |-> OrNull(fd, "company"),
                     Lead_Source |-> "Website",
                     Lead_Status |-> "Not Contacted",
                     Description |-> OrNull(fd, "message")]
    IN  ApplyFormType(baseData, formType)

\* formData.form_type || 'general'
FormTypeOf(fd) ==
    IF HasText(fd, "form_type") THEN fd["form_type"] ELSE <<"general">>

\* A handler without the check req.method !== 'POST': every method other than
\* OPTIONS is handled as a submission.
HandlerStartAnyMethod(i, req) ==
    IF req.method = "OPTIONS"
    THEN [done |-> TRUE, resp |-> PreflightResponse, lead |-> NoLead]
    ELSE LET parsed == ParseFormData(req.body) IN
         IF ~parsed.defined
         THEN [done |-> TRUE, resp |-> SendErrorResponse(ErrTypeUndefinedName, 500), lead |-> NoLead]
         ELSE LET errors == ValidateFormData(parsed.obj) IN
              IF Len(errors) > 0
              THEN [done |-> TRUE, resp |-> SendErrorResponse(ValidationMessage(errors), 400),
                    lead |-> NoLead]
              ELSE [done |-> FALSE, resp |-> NoResp,
                    lead |-> MapFormDataToZohoLead(i, parsed.obj, FormTypeOf(parsed.obj))]

\* The synchronous head of handler(req, res), up to the call of createZohoLead:
\* either a response is sent (done) or a lead record is ready to be submitted.
HandlerStart(i, req) ==
    IF req.method = "OPTIONS"
    THEN [done |-> TRUE, resp |-> PreflightResponse, lead |-> NoLead]
    ELSE IF req.method # "POST"
    THEN [done |-> TRUE, resp |-> SendErrorResponse("Method not allowed", 405), lead |-> NoLead]
    ELSE LET parsed == ParseFormData(req.body) IN
         IF ~parsed.defined
         THEN \* validateFormData(undefined) throws a TypeError inside the try block
              [done |-> TRUE, resp |-> SendErrorResponse(ErrTypeUndefinedName, 500), lead |-> NoLead]
         ELSE LET errors == ValidateFormData(parsed.obj) IN
              IF Len(errors) > 0
              THEN [done |-> TRUE, resp |-> SendErrorResponse(ValidationMessage(errors), 400),
                    lead |-> NoLead]
              ELSE [done |-> FALSE, resp |-> NoResp,
                    lead |-> MapFormDataToZohoLead(i, parsed.obj, FormTypeOf(parsed.obj))]

-----------------------------------------------------------------------------
(* Upstream replies *)

\* response.ok / axios' default validateStatus: a 2xx status.
IsOk(reply) ==
    reply.kind = "http" /\ reply.status >= 200 /\ reply.status < 300

NetErr ==
    [kind |-> "neterr"]

Http(status, parsable, body) ==
    [kind |-> "http", status |-> status, parsable |-> parsable, body |-> body]

\* Replies of the authorization server: transport failure, rejection, a 2xx
\* body that is no JSON, 2xx bodies with and without access_token / expires_in
\* (121 s and 61 s lifetimes), and a 2xx body that reports an error.
AuthReplies ==
    { NetErr,
      Http(400, TRUE, [error |-> "invalid_client"]),
      Http(200, FALSE, EmptyObj),
      Http(200, TRUE, [access_token |-> "tokA", expires_in |-> 121]),
      Http(200, TRUE, [access_token |-> "tokB", expires_in |-> 61]),
      Http(200, TRUE, [error |-> "invalid_code"]) }

\* Replies of the CRM: transport failure, 401, a 500 that carries an
\* acknowledgment, a 2xx body that is no JSON, and 2xx bodies with and without
\* the acknowledgment shape.
CrmReplies ==
    { NetErr,
      Http(401, TRUE, [message |-> "invalid oauth token"]),
      Http(500, TRUE, [data |-> << [status |-> "success", details |-> [id |-> "43"]] >>]),
      Http(200, FALSE, EmptyObj),
      Http(200, TRUE, EmptyObj),
      Http(200, TRUE, [data |-> <<>>]),
      Http(200, TRUE, [data |-> << [status |-> "error"] >>]),
      Http(200, TRUE, [data |-> << [status |-> "success"] >>]),
      Http(200, TRUE, [data |-> << [status |-> "success", details |-> EmptyObj] >>]),
      Http(201, TRUE, [data |-> << [status |-> "success", details |-> [id |-> "42"]] >>]) }

-----------------------------------------------------------------------------
(* Requests *)

EmailOk ==
    <<"jane", "@", "co", ".", "com">>

\* A valid URL-encoded submission (name " Bob"), a JSON submission with an
\* empty name, and a request without a body.
Bodies ==
    { [kind |-> "string",
       pairs |-> << <<"name", <<Space, "Bob">> >>, <<"email", EmailOk>>,
                    <<"form_type", <<"newsletter">> >> >>],
      [kind |-> "object", obj |-> [name |-> <<>>, email |-> EmailOk]],
      [kind |-> "absent"] }

Requests ==
    { [method |-> "OPTIONS", body |-> [kind |-> "absent"]],
      [method |-> "GET", body |-> [kind |-> "absent"]] }
    \cup { [method |-> "POST", body |-> b] : b \in Bodies }

\* No request received yet.
NoReq ==
    [method |-> "<none>", body |-> [kind |-> "absent"]]

\* Form submissions.  The valid ones differ in form_type only.
NameOk ==
    <<"Bob", Space, "Lee">>

PhoneOk ==
    <<"555">>

ValidObj(formType) ==
    [kind |-> "object",
     obj |-> [name |-> NameOk, email |-> EmailOk, phone |-> PhoneOk, form_type |-> formType]]

ValidBodies ==
    { [kind |-> "string",
       pairs |-> << <<"form_type", <<"newsletter">> >>, <<"name", NameOk>>, <<"email", EmailOk>>,
                    <<"phone", PhoneOk>>, <<"form_type", <<"contact">> >> >>],
      ValidObj(<<"newsletter">>),
      ValidObj(<<"demo">>),
      ValidObj(<<>>),
      [kind |-> "object", obj |-> [name |-> NameOk, email |-> EmailOk, phone |-> PhoneOk]] }

\* Submissions whose name is missing or blank, or whose e-mail is missing,
\* blank or ill-formed, and a request without a body.
InvalidBodies ==
    { [kind |-> "object", obj |-> [email |-> EmailOk]],
      [kind |-> "string", pairs |-> << <<"name", <<Space, Space>> >>, <<"email", EmailOk>> >>],
      [kind |-> "object", obj |-> [name |-> NameOk]],
      [kind |-> "object", obj |-> [name |-> NameOk, email |-> <<Space>>]],
      [kind |-> "object", obj |-> [name |-> NameOk, email |-> <<"jane">>]],
      [kind |-> "string", pairs |-> << <<"name", NameOk>>, <<"email", <<"jane", "@", "co">> >> >>],
      [kind |-> "object",
       obj |-> [name |-> NameOk, email |-> <<"ja", Space, "ne", "@", "co", ".", "com">>]],
      [kind |-> "object", obj |-> EmptyObj],
      [kind |-> "absent"] }

FormRequests ==
    { [method |-> "POST", body |-> b] : b \in ValidBodies \cup InvalidBodies }
    \cup { [method |-> "OPTIONS", body |-> [kind |-> "absent"]],
           [method |-> "OPTIONS", body |-> ValidObj(<<"contact">>)],
           [method |-> "GET", body |-> [kind |-> "absent"]],
           [method |-> "PUT", body |-> ValidObj(<<"contact">>)],
           [method |-> "DELETE", body |-> [kind |-> "object", obj |-> [email |-> EmailOk]]] }

\* Upstream replies while the form handling is examined: the exchange fails or
\* delivers a token, the CRM rejects or acknowledges.
FormAuthReplies ==
    { NetErr,
      Http(200, TRUE, [access_token |-> "tokA", expires_in |-> 121]) }

FormCrmReplies ==
    { Http(401, TRUE, [message |-> "invalid oauth token"]),
      Http(201, TRUE, [data |-> << [status |-> "success", details |-> [id |-> "42"]] >>]) }

-----------------------------------------------------------------------------
(* getAccessToken, createZohoLead, and the tail of handler *)

EmptyCache ==
    [token |-> Null, expires |-> Num(0)]

\* A cache check that still accepts the token at its expiry instant (<=).
CacheValidAtExpiry(c, t) ==
    Truthy(c.token) /\ ~c.expires.nan /\ t <= c.expires.v

\* accessTokenCache.token && Date.now() < accessTokenCache.expires
CacheValid(c, t) ==
    Truthy(c.token) /\ NumLt(Num(t), c.expires)

\* An expiry computed without the safety margin.
ExpiryOfNoMargin(body, t) ==
    IF "expires_in" \in DOMAIN body
    THEN Num(t + (body["expires_in"] * MsPerSecond))
    ELSE NaN

\* Date.now() + (expires_in * 1000) - 60000
ExpiryOf(body, t) ==
    IF "expires_in" \in DOMAIN body
    THEN Num(t + (body["expires_in"] * MsPerSecond) - SafetyMarginMs)
    ELSE NaN

\* The part of getAccessToken after the reply of the authorization server, at
\* time t: it throws, or it yields the token to return and the expiry to cache.
\* fetch: response.json() throws on a body that is no JSON, !response.ok throws.
\* axios: a non-2xx status rejects; a 2xx body that is no JSON is handed over as
\* a string (axios' default silent JSON parsing), whose properties are undefined.
ExchangeOutcome(i, reply, t) ==
    IF reply.kind = "neterr" \/ ~IsOk(reply)
    THEN [threw |-> TRUE, token |-> Undefined, expires |-> NaN]
    ELSE IF ~reply.parsable
    THEN IF i = "fetch"
         THEN [threw |-> TRUE, token |-> Undefined, expires |-> NaN]
         ELSE [threw |-> FALSE, token |-> Undefined, expires |-> NaN]
    ELSE [threw |-> FALSE,
          token |-> Get(reply.body, "access_token", Undefined),
          expires |-> ExpiryOf(reply.body, t)]

\* The part of createZohoLead after the reply of the CRM: it throws, or it
\* returns the body.
CrmOutcome(i, reply) ==
    IF reply.kind = "neterr" \/ ~IsOk(reply)
    THEN [threw |-> TRUE, data |-> EmptyObj]
    ELSE IF ~reply.parsable
    THEN IF i = "fetch"
         THEN [threw |-> TRUE, data |-> EmptyObj]
         ELSE [threw |-> FALSE, data |-> EmptyObj]
    ELSE [threw |-> FALSE, data |-> reply.body]

\* An acknowledgment check that accepts any first entry, whatever its status.
AcknowledgedAnyStatus(z) ==
    /\ "data" \in DOMAIN z
    /\ Len(z["data"]) >= 1

\* zohoResponse.data && zohoResponse.data[0] && zohoResponse.data[0].status === 'success'
Acknowledged(z) ==
    /\ "data" \in DOMAIN z
    /\ Len(z["data"]) >= 1
    /\ Get(z["data"][1], "status", Undefined) = "success"

\* The catch block of handler after createZohoLead threw: createZohoLead
\* replaces every error by 'Failed to create lead in Zoho CRM'.
CreateLeadFailed ==
    SendErrorResponse(ErrCrm, 500)

\* A handler tail whose else branch neither throws nor answers.
HandlerFinishSilent(i, z) ==
    IF ~Acknowledged(z)
    THEN NoResp
    ELSE IF i = "axios"
    THEN SendSuccessResponse("Lead created successfully in Zoho CRM")
    ELSE IF "details" \notin DOMAIN z["data"][1]
    THEN SendErrorResponse(ErrTypeUndefinedId, 500)
    ELSE FetchSuccessResponse(Get(z["data"][1]["details"], "id", Undefined))

\* The tail of handler once createZohoLead has returned zohoResponse.
HandlerFinish(i, z) ==
    IF ~Acknowledged(z)
    THEN SendErrorResponse(ErrCrm, 500)
    ELSE IF i = "axios"
    THEN SendSuccessResponse("Lead created successfully in Zoho CRM")
    ELSE IF "details" \notin DOMAIN z["data"][1]
    THEN \* zohoResponse.data[0].details.id throws a TypeError, caught at line 236
         SendErrorResponse(ErrTypeUndefinedId, 500)
    ELSE FetchSuccessResponse(Get(z["data"][1]["details"], "id", Undefined))

\* A getAccessToken that never consults the cache.
GetAccessTokenNoCache(c, t) ==
    [hit |-> FALSE, token |-> Undefined]

\* The head of getAccessToken at time t: a cache hit returns the cached token,
\* otherwise the token request is sent.
GetAccessTokenStart(c, t) ==
    IF CacheValid(c, t)
    THEN [hit |-> TRUE, token |-> c.token]
    ELSE [hit |-> FALSE, token |-> Undefined]

\* A cache write that takes the new token but keeps the later of the two
\* expiry instants.
CacheAfterKeepsLaterExpiry(c, o) ==
    IF o.threw THEN c
    ELSE [token |-> o.token,
          expires |-> IF NumLt(o.expires, c.expires) THEN c.expires ELSE o.expires]

\* accessTokenCache after the reply was processed (lines 49-50, 288-289).
CacheAfter(c, o) ==
    IF o.threw THEN c ELSE [token |-> o.token, expires |-> o.expires]

\* A createZohoLead that swallows the failure of getAccessToken and goes on to
\* the CRM POST without a token.
AfterExchangeGoesOn(o) ==
    [pc |-> "awaitCrm", resp |-> NoResp, tok |-> o.token, posts |-> 1]

\* A createZohoLead whose catch block rethrows the error it caught, so that the
\* caller is told 'Failed to authenticate with Zoho'.
AfterExchangeRethrows(o) ==
    IF o.threw
    THEN [pc |-> "done", resp |-> SendErrorResponse(ErrAuth, 500), tok |-> Undefined, posts |-> 0]
    ELSE [pc |-> "awaitCrm", resp |-> NoResp, tok |-> o.token, posts |-> 1]

\* A createZohoLead that builds the Authorization header before the token is
\* assigned.
AfterExchangeDropsToken(o) ==
    IF o.threw
    THEN [pc |-> "done", resp |-> CreateLeadFailed, tok |-> Undefined, posts |-> 0]
    ELSE [pc |-> "awaitCrm", resp |-> NoResp, tok |-> Undefined, posts |-> 1]

\* Where createZohoLead goes once getAccessToken has settled: its catch block
\* rethrows and the handler answers 500, or it sends the CRM POST with the
\* token in the Authorization header and awaits the reply.
AfterExchange(o) ==
    IF o.threw
    THEN [pc |-> "done", resp |-> CreateLeadFailed, tok |-> Undefined, posts |-> 0]
    ELSE [pc |-> "awaitCrm", resp |-> NoResp, tok |-> o.token, posts |-> 1]

\* Where the handler goes once the CRM reply was processed.
AfterCrm(i, o) ==
    IF o.threw THEN CreateLeadFailed ELSE HandlerFinish(i, o.data)

-----------------------------------------------------------------------------
(* The state machine *)

\* An upstream call failed, as the environment sees it: no reply at all, or a
\* reply whose status is not 2xx.
ReplyFailed(reply) ==
    \/ reply.kind = "neterr"
    \/ reply.status < 200
    \/ reply.status > 299

\* What the authorization server's reply was, as the environment sent it: no
\* 2xx reply ("failed"), a 2xx reply whose body is no JSON ("unparsable"), or a
\* 2xx reply with a JSON body ("answered").
AuthReplyClass(reply) ==
    IF ReplyFailed(reply) THEN "failed"
    ELSE IF ~reply.parsable THEN "unparsable"
    ELSE "answered"

\* What the CRM's reply was, as the environment sent it: no 2xx reply
\* ("failed"), a 2xx reply whose first data entry has status "success"
\* ("acknowledged"), or any other 2xx reply ("unacknowledged").
ReplyClass(reply) ==
    IF ReplyFailed(reply) THEN "failed"
    ELSE IF /\ reply.parsable
            /\ "data" \in DOMAIN reply.body
            /\ Len(reply.body["data"]) > 0
            /\ "status" \in DOMAIN reply.body["data"][1]
            /\ reply.body["data"][1]["status"] = "success"
    THEN "acknowledged"
    ELSE "unacknowledged"

NoExchange ==
    [written |-> FALSE, at |-> 0, issued |-> 0, hasT |-> FALSE, T |-> 0,
     token |-> Undefined]

\* The implementations whose invocation p stands at position at.
Acting(p, at) ==
    { i \in deployed : pc[i][p] = at }

\* f with f[i][p] replaced by V(i) for every i in S.
Upd(f, S, p, V(_)) ==
    [i \in Impls |-> IF i \in S THEN [f[i] EXCEPT ![p] = V(i)] ELSE f[i]]

InitCommon ==
    /\ now = 0
    /\ ticks = 0
    /\ cache = [i \in Impls |-> EmptyCache]
    /\ exch = [i \in Impls |-> NoExchange]
    /\ pc = [i \in Impls |-> [p \in Procs |-> "idle"]]
    /\ tok = [i \in Impls |-> [p \in Procs |-> Undefined]]
    /\ lead = [i \in Impls |-> [p \in Procs |-> NoLead]]
    /\ sentAt = [i \in Impls |-> [p \in Procs |-> 0]]
    /\ authCalls = [i \in Impls |-> [p \in Procs |-> 0]]
    /\ crmCalls = [i \in Impls |-> [p \in Procs |-> 0]]
    /\ resp = [i \in Impls |-> [p \in Procs |-> NoResp]]
    /\ authSeen = [i \in Impls |-> [p \in Procs |-> "none"]]
    /\ crmSeen = [i \in Impls |-> [p \in Procs |-> "none"]]
    /\ form = [p \in Procs |-> NoReq]

\* One of the two implementations is deployed.
Init ==
    /\ deployed \in { {i} : i \in Impls }
    /\ InitCommon

\* Both implementations run side by side on the same inputs.
InitPair ==
    /\ deployed = Impls
    /\ InitCommon

\* A handler with single-flight coalescing: an invocation that misses the cache
\* while another exchange is in flight waits for that exchange and sends no
\* token request of its own.
ReceiveCoalescing(p, req) ==
    LET S == Acting(p, "idle")
        st(i) == HandlerStart(i, req)
        g(i) == GetAccessTokenStart(cache[i], now)
        hit(i) == ~st(i).done /\ g(i).hit
        miss(i) == ~st(i).done /\ ~g(i).hit
        own(i) == miss(i) /\ \A q \in Procs : pc[i][q] # "awaitAuth"
    IN  /\ S # {}
        /\ \A q \in Procs : q < p => Acting(q, "idle") = {}
        /\ pc' = Upd(pc, S, p, LAMBDA i : IF st(i).done THEN "done"
                                          ELSE IF g(i).hit THEN "awaitCrm" ELSE "awaitAuth")
        /\ resp' = Upd(resp, S, p, LAMBDA i : st(i).resp)
        /\ lead' = Upd(lead, S, p, LAMBDA i : st(i).lead)
        /\ tok' = Upd(tok, S, p, LAMBDA i : IF hit(i) THEN g(i).token ELSE tok[i][p])
        /\ authCalls' = Upd(authCalls, S, p, LAMBDA i : IF own(i) THEN authCalls[i][p] + 1
                                                        ELSE authCalls[i][p])
        /\ crmCalls' = Upd(crmCalls, S, p, LAMBDA i : IF hit(i) THEN crmCalls[i][p] + 1
                                                      ELSE crmCalls[i][p])
        /\ sentAt' = Upd(sentAt, S, p, LAMBDA i : IF miss(i) THEN now ELSE sentAt[i][p])
        /\ form' = [form EXCEPT ![p] = req]
        /\ UNCHANGED <<deployed, now, ticks, cache, exch, authSeen, crmSeen>>

\* A request arrives: handler runs until it has to wait for an upstream reply.
\* A valid POST calls createZohoLead, which calls getAccessToken: on a cache hit
\* the token is returned and the CRM POST is sent at once (the continuations of
\* an already settled await run before any other request or reply is handled);
\* on a miss the token request is sent.  Invocations are numbered in arrival
\* order.
Receive(p, req) ==
    LET S == Acting(p, "idle")
        st(i) == HandlerStart(i, req)
        g(i) == GetAccessTokenStart(cache[i], now)
        hit(i) == ~st(i).done /\ g(i).hit
        miss(i) == ~st(i).done /\ ~g(i).hit
    IN  /\ S # {}
        /\ \A q \in Procs : q < p => Acting(q, "idle") = {}
        /\ pc' = Upd(pc, S, p, LAMBDA i : IF st(i).done THEN "done"
                                          ELSE IF g(i).hit THEN "awaitCrm" ELSE "awaitAuth")
        /\ resp' = Upd(resp, S, p, LAMBDA i : st(i).resp)
        /\ lead' = Upd(lead, S, p, LAMBDA i : st(i).lead)
        /\ tok' = Upd(tok, S, p, LAMBDA i : IF hit(i) THEN g(i).token ELSE tok[i][p])
        /\ authCalls' = Upd(authCalls, S, p, LAMBDA i : IF miss(i) THEN authCalls[i][p] + 1
                                                        ELSE authCalls[i][p])
        /\ crmCalls' = Upd(crmCalls, S, p, LAMBDA i : IF hit(i) THEN crmCalls[i][p] + 1
                                                      ELSE crmCalls[i][p])
        /\ sentAt' = Upd(sentAt, S, p, LAMBDA i : IF miss(i) THEN now ELSE sentAt[i][p])
        /\ form' = [form EXCEPT ![p] = req]
        /\ UNCHANGED <<deployed, now, ticks, cache, exch, authSeen, crmSeen>>

\* The reply of the authorization server has arrived and its body was read
\* (lines 40-56, 285-295): the cache is written and the CRM POST is sent, or
\* the invocation fails.  The server issued the token when it got the request,
\* taken to be the instant the request was sent; the time the reply took is
\* the time the clock advanced since.
AuthReply(p, reply) ==
    LET S == Acting(p, "awaitAuth")
        o(i) == ExchangeOutcome(i, reply, now)
        a(i) == AfterExchange(o(i))
    IN  /\ S # {}
        /\ cache' = [i \in Impls |-> IF i \in S THEN CacheAfter(cache[i], o(i)) ELSE cache[i]]
        /\ exch' = [i \in Impls |->
                      IF i \in S /\ ~o(i).threw
                      THEN [written |-> TRUE, at |-> now,
                            issued |-> sentAt[i][p],
                            hasT |-> reply.parsable /\ "expires_in" \in DOMAIN reply.body,
                            T |-> IF reply.parsable THEN Get(reply.body, "expires_in", 0) ELSE 0,
                            token |-> o(i).token]
                      ELSE exch[i]]
        /\ pc' = Upd(pc, S, p, LAMBDA i : a(i).pc)
        /\ resp' = Upd(resp, S, p, LAMBDA i : a(i).resp)
        /\ tok' = Upd(tok, S, p, LAMBDA i : a(i).tok)
        /\ lead' = Upd(lead, S, p, LAMBDA i : IF o(i).threw THEN NoLead ELSE lead[i][p])
        /\ sentAt' = Upd(sentAt, S, p, LAMBDA i : 0)
        /\ crmCalls' = Upd(crmCalls, S, p, LAMBDA i : crmCalls[i][p] + a(i).posts)
        /\ authSeen' = Upd(authSeen, S, p, LAMBDA i : AuthReplyClass(reply))
        /\ UNCHANGED <<deployed, now, ticks, authCalls, crmSeen, form>>

\* A CRM reply handling that evicts the cached token when the CRM call failed.
CrmReplyEvicting(p, reply) ==
    LET S == Acting(p, "awaitCrm")
    IN  /\ S # {}
        /\ pc' = Upd(pc, S, p, LAMBDA i : "done")
        /\ resp' = Upd(resp, S, p, LAMBDA i : AfterCrm(i, CrmOutcome(i, reply)))
        /\ tok' = Upd(tok, S, p, LAMBDA i : Undefined)
        /\ lead' = Upd(lead, S, p, LAMBDA i : NoLead)
        /\ crmSeen' = Upd(crmSeen, S, p, LAMBDA i : ReplyClass(reply))
        /\ cache' = [i \in Impls |-> IF i \in S /\ CrmOutcome(i, reply).threw
                                    THEN EmptyCache ELSE cache[i]]
        /\ UNCHANGED <<deployed, now, ticks, exch, sentAt, authCalls, crmCalls, authSeen, form>>

\* The reply of the CRM is processed and the response is sent; the locals of
\* the invocation go out of scope.
CrmReply(p, reply) ==
    LET S == Acting(p, "awaitCrm")
    IN  /\ S # {}
        /\ pc' = Upd(pc, S, p, LAMBDA i : "done")
        /\ resp' = Upd(resp, S, p, LAMBDA i : AfterCrm(i, CrmOutcome(i, reply)))
        /\ tok' = Upd(tok, S, p, LAMBDA i : Undefined)
        /\ lead' = Upd(lead, S, p, LAMBDA i : NoLead)
        /\ crmSeen' = Upd(crmSeen, S, p, LAMBDA i : ReplyClass(reply))
        /\ UNCHANGED <<deployed, now, ticks, cache, exch, sentAt, authCalls, crmCalls, authSeen,
                       form>>

\* The clock advances.
Tick(d) ==
    /\ ticks < MaxTicks
    /\ now' = now + d
    /\ ticks' = ticks + 1
    /\ UNCHANGED <<deployed, cache, exch, pc, tok, lead, sentAt, authCalls, crmCalls, resp,
                   authSeen, crmSeen, form>>

Next ==
    \/ \E p \in Procs, req \in Requests : Receive(p, req)
    \/ \E p \in Procs, reply \in AuthReplies : AuthReply(p, reply)
    \/ \E p \in Procs, reply \in CrmReplies : CrmReply(p, reply)
    \/ \E d \in TickSteps : Tick(d)

Spec ==
    Init /\ [][Next]_vars

SpecPair ==
    InitPair /\ [][Next]_vars

\* The handler on one path of each kind: preflight, wrong method, validation
\* failure, failed exchange, rejected POST, unacknowledged POST, success.
LiveCrmReplies ==
    { Http(401, TRUE, [message |-> "invalid oauth token"]),
      Http(200, TRUE, [data |-> << [status |-> "error"] >>]),
      Http(201, TRUE, [data |-> << [status |-> "success", details |-> [id |-> "42"]] >>]) }

NextLive ==
    \/ \E p \in Procs, req \in Requests : Receive(p, req)
    \/ \E p \in Procs, reply \in FormAuthReplies : AuthReply(p, reply)
    \/ \E p \in Procs, reply \in LiveCrmReplies : CrmReply(p, reply)

\* Every outbound call eventually returns or fails: a pending token request and
\* a pending CRM POST are eventually answered.
UpstreamAnswers ==
    \A p \in Procs :
        /\ WF_vars(\E reply \in FormAuthReplies : AuthReply(p, reply))
        /\ WF_vars(\E reply \in LiveCrmReplies : CrmReply(p, reply))

SpecLive ==
    Init /\ [][NextLive]_vars /\ UpstreamAnswers

\* The handler on the full range of form submissions and methods.
NextForms ==
    \/ \E p \in Procs, req \in FormRequests : Receive(p, req)
    \/ \E p \in Procs, reply \in FormAuthReplies : AuthReply(p, reply)
    \/ \E p \in Procs, reply \in FormCrmReplies : CrmReply(p, reply)

SpecForms ==
    Init /\ [][NextForms]_vars

-----------------------------------------------------------------------------
(* Vocabulary of the properties *)

RECURSIVE SumOver(_, _)
SumOver(f, S) ==
    IF S = {} THEN 0
    ELSE LET x == CHOOSE y \in S : TRUE
         IN  f[x] + SumOver(f, S \ {x})

\* Invocation p of implementation i calls getAccessToken in this step.
CallsGetToken(i, p) ==
    pc[i][p] = "idle" /\ pc'[i][p] \in {"awaitCrm", "awaitAuth"}

\* getAccessToken returns from the cache in this step.
CacheHitStep(i, p) ==
    pc[i][p] = "idle" /\ pc'[i][p] = "awaitCrm"

\* getAccessToken returns a freshly exchanged token in this step.
ExchangeOkStep(i, p) ==
    pc[i][p] = "awaitAuth" /\ pc'[i][p] = "awaitCrm"

\* The invocation has called getAccessToken (it issued an upstream call).
HasCalled(i, p) ==
    authCalls[i][p] + crmCalls[i][p] > 0

\* The cache of implementation i holds a token delivered by an exchange that
\* completed at t0 = exch[i].at with expires_in = T, and now < t0 + T*1000 - 60000.
InWindow(i) ==
    /\ exch[i].written
    /\ Truthy(exch[i].token)
    /\ exch[i].hasT
    /\ now < exch[i].at + (exch[i].T * MsPerSecond) - SafetyMarginMs

\* The response is a 200 with success: true.
IsSuccessResponse(r) ==
    /\ r.status = 200
    /\ "success" \in DOMAIN r.body
    /\ r.body["success"] = TRUE

\* The response is a 500 with success: false.
IsFailureResponse(r) ==
    /\ r.status = 500
    /\ "success" \in DOMAIN r.body
    /\ r.body["success"] = FALSE

-----------------------------------------------------------------------------
(* Properties *)

\* C1  Cache validity boundary: a getAccessToken call returns the cached token,
\* without an authorization call, exactly when the cache holds a token from an
\* exchange completed at t0 with lifetime T and now < t0 + T*1000 - 60000; at
\* now >= t0 + T*1000 - 60000, and when there is no token, an exchange is started.
C1_CacheValidityBoundary ==
    [][\A i \in deployed, p \in Procs :
          CallsGetToken(i, p) =>
             IF InWindow(i)
             THEN /\ pc'[i][p] = "awaitCrm"
                  /\ tok'[i][p] = exch[i].token
                  /\ authCalls'[i] = authCalls[i]
             ELSE /\ pc'[i][p] = "awaitAuth"
                  /\ authCalls'[i][p] = authCalls[i][p] + 1]_vars

\* C1 witness: a call made exactly at t0 + T*1000 - 60000 started an exchange.
C1_Witness ==
    \E i \in deployed, p \in Procs :
        /\ exch[i].written /\ Truthy(exch[i].token) /\ exch[i].hasT
        /\ now = exch[i].at + (exch[i].T * MsPerSecond) - SafetyMarginMs
        /\ pc[i][p] = "awaitAuth"
        /\ sentAt[i][p] = now

\* C2  Single-exchange optimization: of two sequential getAccessToken calls
\* starting from an empty cache, when the second happens inside the validity
\* window of the token cached by the first, the second performs no
\* authorization call (one in total), returns the same token and leaves the
\* cache unchanged.
C2_SingleExchange ==
    [][\A i \in deployed, p \in Procs, q \in Procs :
          ( /\ p # q
            /\ CallsGetToken(i, p)
            /\ authCalls[i][q] = 1
            /\ pc[i][q] \in {"awaitCrm", "done"}
            /\ \A r \in Procs \ {p, q} : ~HasCalled(i, r) /\ pc[i][r] \in {"idle", "done"}
            /\ InWindow(i) )
          => /\ pc'[i][p] = "awaitCrm"
             /\ authCalls'[i][p] = 0
             /\ SumOver(authCalls'[i], Procs) = 1
             /\ tok'[i][p] = exch[i].token
             /\ (pc[i][q] = "awaitCrm" => tok'[i][p] = tok[i][q])
             /\ cache'[i] = cache[i]]_vars

\* C2 witness: the first invocation exchanged, the second got its token from
\* the cache, and there was one authorization call in all.
C2_Witness ==
    \E i \in deployed, p \in Procs, q \in Procs :
        /\ p # q
        /\ authCalls[i][q] = 1 /\ pc[i][q] \in {"awaitCrm", "done"}
        /\ pc[i][p] = "awaitCrm" /\ authCalls[i][p] = 0 /\ crmCalls[i][p] = 1
        /\ Truthy(tok[i][p])
        /\ SumOver(authCalls[i], Procs) = 1

\* C3  Refresh-on-expiry: a getAccessToken call that finds the cached token
\* absent or expired performs exactly one authorization call, and when the
\* exchange succeeds the cache holds the access_token returned to the caller
\* with expires = completion time + expires_in*1000 - 60000.
C3_RefreshOnExpiry ==
    [][\A i \in deployed, p \in Procs :
          /\ (CallsGetToken(i, p) /\ ~InWindow(i)) => authCalls'[i][p] = 1
          /\ ExchangeOkStep(i, p) =>
                /\ authCalls'[i][p] = 1
                /\ cache'[i].token = tok'[i][p]
                /\ exch'[i].at = now
                /\ cache'[i].expires =
                      IF exch'[i].hasT
                      THEN Num(now + (exch'[i].T * MsPerSecond) - SafetyMarginMs)
                      ELSE NaN]_vars

\* C3 witness: an invocation holds a freshly exchanged token, which is the one
\* in the cache, with the expiry computed from its lifetime.
C3_Witness ==
    \E i \in deployed, p \in Procs :
        /\ pc[i][p] = "awaitCrm" /\ authCalls[i][p] = 1
        /\ exch[i].written /\ exch[i].hasT /\ Truthy(tok[i][p])
        /\ cache[i].token = tok[i][p]
        /\ cache[i].expires = Num(exch[i].at + (exch[i].T * MsPerSecond) - SafetyMarginMs)

\* C4  getAccessToken never returns a partial or default token: whatever the
\* authorization server replies, the call fails or returns a non-empty
\* access_token, and the cache written from a reply holds a non-empty token.
C4_NoPartialToken ==
    \A i \in deployed :
        /\ \A p \in Procs : pc[i][p] = "awaitCrm" => Truthy(tok[i][p])
        /\ exch[i].written => Truthy(cache[i].token)

\* C5  Safety margin: whenever getAccessToken returns a token from the cache,
\* the current time is strictly before the server's expiry of that token (the
\* instant it was issued plus expires_in seconds), whatever the latency of the
\* exchange that produced it.
C5_HitBeforeServerExpiry ==
    [][\A i \in deployed, p \in Procs :
          CacheHitStep(i, p) => now < exch[i].issued + (exch[i].T * MsPerSecond)]_vars

\* C6  Semantic acknowledgment: a POST is answered 200 with success:true only
\* if the CRM replied with a 2xx status and data[0].status = "success"; a 2xx
\* reply whose data is missing, empty or whose data[0].status is not "success"
\* is answered 500 with success:false.
C6_SemanticAcknowledgment ==
    \A i \in deployed, p \in Procs :
        /\ IsSuccessResponse(resp[i][p]) => crmSeen[i][p] = "acknowledged"
        /\ crmSeen[i][p] = "unacknowledged" => IsFailureResponse(resp[i][p])

\* C6 witness: a 2xx CRM reply without the acknowledgment was answered 500,
\* and another invocation's acknowledged reply was answered 200.
C6_Witness ==
    \E i \in deployed, p \in Procs, q \in Procs :
        /\ crmSeen[i][p] = "unacknowledged" /\ resp[i][p].status = 500
        /\ crmSeen[i][q] = "acknowledged" /\ IsSuccessResponse(resp[i][q])

\* C7  Every 200 success response carries a leadId, the identifier of the CRM
\* acknowledgment; an acknowledgment without identifier yields no success.
C7_SuccessCarriesLeadId ==
    \A i \in deployed, p \in Procs :
        IsSuccessResponse(resp[i][p]) =>
            /\ "leadId" \in DOMAIN resp[i][p].body
            /\ resp[i][p].body["leadId"] = "42"

\* C8  The two implementations are functionally equivalent: side by side on
\* the same requests, replies and clock readings they issue the same outbound
\* calls (with the same token and lead record), hold the same cache and send
\* the same responses.
C8_ImplementationsEquivalent ==
    /\ cache["fetch"] = cache["axios"]
    /\ \A p \in Procs :
          /\ pc["fetch"][p] = pc["axios"][p]
          /\ authCalls["fetch"][p] = authCalls["axios"][p]
          /\ crmCalls["fetch"][p] = crmCalls["axios"][p]
          /\ tok["fetch"][p] = tok["axios"][p]
          /\ lead["fetch"][p] = lead["axios"][p]
          /\ resp["fetch"][p] = resp["axios"][p]

\* C9  Concurrent refresh race: an invocation that finds the cache absent or
\* expired while another invocation's exchange is in flight starts its own
\* exchange (no coalescing), so the exchanges in flight for one expiry can be
\* as many as the concurrent invocations.
C9_NoSingleFlight ==
    [][\A i \in deployed, p \in Procs :
          ( /\ CallsGetToken(i, p)
            /\ ~InWindow(i)
            /\ \E q \in Procs : pc[i][q] = "awaitAuth" )
          => /\ pc'[i][p] = "awaitAuth"
             /\ authCalls'[i][p] = 1
             /\ SumOver(authCalls'[i], Procs) = SumOver(authCalls[i], Procs) + 1]_vars

\* C9 witness: every invocation has its own exchange in flight at once, all
\* started on the same empty cache.
C9_Witness ==
    \E i \in deployed :
        /\ \A p \in Procs : pc[i][p] = "awaitAuth" /\ authCalls[i][p] = 1
        /\ ~exch[i].written
        /\ SumOver(authCalls[i], Procs) = NumProcs

Submitted(p) ==
    ParseFormData(form[p].body).obj

\* The field is missing, empty or made of whitespace only.
MissingOrBlank(fd, k) ==
    k \notin DOMAIN fd \/ \A n \in 1..Len(fd[k]) : fd[k][n] = Space

\* local@domain.tld: no whitespace, exactly one "@", with a non-empty local
\* part before it and, after it, a "." with text on both sides.
HasEmailShape(e) ==
    /\ \A n \in 1..Len(e) : e[n] # Space
    /\ Cardinality({ n \in 1..Len(e) : e[n] = "@" }) = 1
    /\ \E n \in 2..Len(e) : \E m \in (n + 2)..(Len(e) - 1) : e[n] = "@" /\ e[m] = "."

\* The submission fails the validation rules of the specification.
InvalidSubmission(p) ==
    \/ MissingOrBlank(Submitted(p), "name")
    \/ MissingOrBlank(Submitted(p), "email")
    \/ ~HasEmailShape(Submitted(p)["email"])

ValidationTexts ==
    { "Validation failed: Name is required",
      "Validation failed: Email is required",
      "Validation failed: Invalid email format",
      "Validation failed: Name is required, Email is required",
      "Validation failed: Name is required, Invalid email format",
      "Validation failed: Email is required, Invalid email format",
      "Validation failed: Name is required, Email is required, Invalid email format" }

\* Invocation p receives its request in this step.
Arrives(p) ==
    form[p] = NoReq /\ form'[p] # NoReq

\* C11  Validation gate: a POST whose name is missing or blank, or whose email
\* is missing, blank or ill-formed (URL-encoded, JSON or absent body), is
\* answered 400 with success:false and an error starting with "Validation
\* failed:", and the invocation makes no authorization exchange, no CRM call
\* and no change to the cache.
C11_ValidationGate ==
    [][\A p \in Procs :
          (Arrives(p) /\ form'[p].method = "POST" /\ InvalidSubmission(p)')
          => \A i \in deployed :
                /\ pc'[i][p] = "done"
                /\ resp'[i][p].status = 400
                /\ resp'[i][p].body["success"] = FALSE
                /\ resp'[i][p].body["error"] \in ValidationTexts
                /\ authCalls'[i][p] = 0
                /\ crmCalls'[i][p] = 0
                /\ cache'[i] = cache[i]]_vars

\* C15  Method dispatch: OPTIONS is answered 200 with an empty body, any method
\* other than POST and OPTIONS is answered 405 with success:false and error
\* "Method not allowed"; in both cases the body is not parsed (no lead record,
\* no validation answer), no authorization exchange or CRM call is made and
\* the cache is unchanged.
C15_MethodDispatch ==
    [][\A p \in Procs :
          (Arrives(p) /\ form'[p].method # "POST")
          => \A i \in deployed :
                /\ pc'[i][p] = "done"
                /\ IF form'[p].method = "OPTIONS"
                   THEN /\ resp'[i][p].status = 200
                        /\ resp'[i][p].body = EmptyObj
                   ELSE /\ resp'[i][p].status = 405
                        /\ resp'[i][p].body["success"] = FALSE
                        /\ resp'[i][p].body["error"] = "Method not allowed"
                /\ lead'[i][p] = NoLead
                /\ authCalls'[i][p] = 0
                /\ crmCalls'[i][p] = 0
                /\ cache'[i] = cache[i]]_vars

\* C15 witness: an OPTIONS request and a PUT request, both carrying a valid
\* submission, were answered 200 (empty) and 405.
C15_Witness ==
    \E i \in deployed, p \in Procs, q \in Procs :
        /\ form[p].method = "OPTIONS" /\ form[p].body.kind = "object"
        /\ resp[i][p].status = 200 /\ resp[i][p].body = EmptyObj
        /\ form[q].method = "PUT" /\ form[q].body.kind = "object"
        /\ resp[i][q].status = 405

\* The invocation holds a lead record that it submits or is about to submit.
HasLead(i, p) ==
    pc[i][p] \in {"awaitAuth", "awaitCrm"}

\* The record without the fields named in ks.
Without(rec, ks) ==
    [k \in DOMAIN rec \ ks |-> rec[k]]

\* The table of the specification: form_type -> (Lead_Source, Lead_Status).
FormTypeTable(fd) ==
    IF "form_type" \in DOMAIN fd /\ fd["form_type"] = <<"contact">>
    THEN <<"Website - Contact Form", "Not Contacted">>
    ELSE IF "form_type" \in DOMAIN fd /\ fd["form_type"] = <<"newsletter">>
    THEN <<"Website - Newsletter", "Qualified">>
    ELSE <<"Website", "Not Contacted">>

\* C16  Form-type table: the lead record has (Lead_Source, Lead_Status) =
\* ("Website - Contact Form", "Not Contacted") for contact, ("Website -
\* Newsletter", "Qualified") for newsletter and ("Website", "Not Contacted")
\* for any other or absent form_type; submissions that differ in form_type only
\* give records that agree on all other fields, and the same submission mapped
\* twice gives the same record.
C16_FormTypeTable ==
    \A i \in deployed, p \in Procs :
        HasLead(i, p) =>
           /\ <<lead[i][p]["Lead_Source"], lead[i][p]["Lead_Status"]>> = FormTypeTable(Submitted(p))
           /\ \A q \in Procs :
                 ( /\ HasLead(i, q)
                   /\ Without(Submitted(p), {"form_type"}) = Without(Submitted(q), {"form_type"}) )
                 => /\ Without(lead[i][p], {"Lead_Source", "Lead_Status"})
                         = Without(lead[i][q], {"Lead_Source", "Lead_Status"})
                    /\ Submitted(p) = Submitted(q) => lead[i][p] = lead[i][q]

\* C16 witness: a contact submission and a newsletter submission with the same
\* other fields are both on their way to the CRM.
C16_Witness ==
    \E i \in deployed, p \in Procs, q \in Procs :
        /\ HasLead(i, p) /\ HasLead(i, q)
        /\ lead[i][p]["Lead_Source"] = "Website - Contact Form"
        /\ lead[i][q]["Lead_Status"] = "Qualified"
        /\ lead[i][p]["Email"] = lead[i][q]["Email"]

C13_NoEvictionOnCrmReply ==
    [][\A i \in deployed, p \in Procs :
          /\ (pc[i][p] = "awaitCrm" /\ pc'[i][p] = "done") => cache'[i] = cache[i]
          /\ ( /\ CallsGetToken(i, p)
               /\ InWindow(i)
               /\ \E q \in Procs : crmSeen[i][q] # "none" )
             => /\ pc'[i][p] = "awaitCrm"
                /\ tok'[i][p] = exch[i].token
                /\ authCalls'[i][p] = 0]_vars

\* C13 witness: the CRM rejected one invocation's POST, and a later invocation
\* has sent its POST with the cached token and without an exchange.
C13_Witness ==
    \E i \in deployed, p \in Procs, q \in Procs :
        /\ crmSeen[i][p] = "failed" /\ resp[i][p].status = 500 /\ authCalls[i][p] = 1
        /\ pc[i][q] = "awaitCrm" /\ authCalls[i][q] = 0
        /\ tok[i][q] = cache[i].token

\* C14  Every response sent (OPTIONS 200, 405, 400, 200 success, 500) carries
\* the three CORS headers.
C14_CORSOnEveryResponse ==
    \A i \in deployed, p \in Procs :
        pc[i][p] = "done" =>
           /\ resp[i][p].status \in {200, 400, 405, 500}
           /\ <<"Access-Control-Allow-Origin", "*">> \in resp[i][p].headers
           /\ <<"Access-Control-Allow-Methods", "POST, OPTIONS">> \in resp[i][p].headers
           /\ <<"Access-Control-Allow-Headers", "Content-Type">> \in resp[i][p].headers

\* C14 witness: a preflight answer and a 500 answer, both sent.
C14_Witness ==
    \E i \in deployed, p \in Procs, q \in Procs :
        /\ pc[i][p] = "done" /\ form[p].method = "OPTIONS" /\ resp[i][p].status = 200
        /\ pc[i][q] = "done" /\ resp[i][q].status = 500

\* C17  Failed exchange leaves the cache untouched: when the authorization
\* server gives no reply, a non-2xx status or a body that is no JSON,
\* getAccessToken fails (the invocation ends with 500 and sends no CRM POST)
\* and the cache keeps its token and expires.
C17_FailedExchangeKeepsCache ==
    [][\A i \in deployed, p \in Procs :
          (pc[i][p] = "awaitAuth" /\ authSeen'[i][p] \in {"failed", "unparsable"})
          => /\ cache'[i] = cache[i]
             /\ pc'[i][p] = "done"
             /\ IsFailureResponse(resp'[i][p])
             /\ crmCalls'[i][p] = 0]_vars

\* The expiry that the exchange recorded in exch[i] gives.
ExpiryWritten(i) ==
    IF exch[i].hasT
    THEN Num(exch[i].at + (exch[i].T * MsPerSecond) - SafetyMarginMs)
    ELSE NaN

\* C18  Cache pair consistency: in every state the cache's token and expires
\* are those of one and the same exchange, the one whose reply was processed
\* last (the initial pair before any was), however the invocations interleave.
C18_CachePairConsistent ==
    \A i \in deployed :
        IF exch[i].written
        THEN cache[i] = [token |-> exch[i].token, expires |-> ExpiryWritten(i)]
        ELSE cache[i] = [token |-> Null, expires |-> Num(0)]

\* C18 witness: two interleaved exchanges delivered different tokens with
\* different lifetimes; the cache holds the pair of the second.
C18_Witness ==
    \E i \in deployed, p \in Procs, q \in Procs :
        /\ pc[i][p] = "awaitCrm" /\ pc[i][q] = "awaitCrm"
        /\ tok[i][p] = "tokA" /\ tok[i][q] = "tokB"
        /\ cache[i].token = "tokB"
        /\ cache[i].expires = Num(exch[i].at + MsPerSecond)

\* C19  Acquire-before-submit: an invocation issues its CRM POST only in the
\* step in which getAccessToken returns, with exactly the returned token (the
\* cached one, or the one of the reply just processed) in the Authorization
\* header; while the token is awaited no POST has been issued, and an
\* invocation whose getAccessToken failed issues none.
C19_AcquireBeforeSubmit ==
    [][\A i \in deployed, p \in Procs :
          /\ crmCalls'[i][p] # crmCalls[i][p] =>
                /\ crmCalls[i][p] = 0 /\ crmCalls'[i][p] = 1
                /\ CacheHitStep(i, p) \/ ExchangeOkStep(i, p)
                /\ CacheHitStep(i, p) => tok'[i][p] = cache[i].token /\ authCalls'[i][p] = 0
                /\ ExchangeOkStep(i, p) => tok'[i][p] = exch'[i].token /\ exch'[i].at = now
          /\ pc'[i][p] = "awaitAuth" => crmCalls'[i][p] = 0
          /\ pc'[i][p] = "awaitCrm" => crmCalls'[i][p] = 1
          /\ (pc[i][p] = "awaitAuth" /\ pc'[i][p] = "done") => crmCalls'[i][p] = 0
          /\ pc[i][p] = "done" => crmCalls'[i][p] = crmCalls[i][p]]_vars

\* C19 witness: one invocation sent its POST with a freshly exchanged token,
\* another with the same token taken from the cache.
C19_Witness ==
    \E i \in deployed, p \in Procs, q \in Procs :
        /\ pc[i][p] = "awaitCrm" /\ authCalls[i][p] = 1 /\ tok[i][p] = "tokA"
        /\ pc[i][q] = "awaitCrm" /\ authCalls[i][q] = 0 /\ tok[i][q] = "tokA"
        /\ crmCalls[i][p] = 1 /\ crmCalls[i][q] = 1

\* C20  Exactly one response per request: provided every outbound call is
\* eventually answered, every invocation eventually terminates; a terminated
\* invocation has sent a response with status 200, 400, 405 or 500, an
\* invocation that has not terminated has sent none, and a response once sent
\* is never followed by another.
C20_ExactlyOneResponse ==
    /\ [](\A i \in Impls, p \in Procs :
             /\ (pc[i][p] = "done") <=> (resp[i][p] # NoResp)
             /\ pc[i][p] = "done" => resp[i][p].status \in {200, 400, 405, 500})
    /\ [][\A i \in Impls, p \in Procs :
             resp[i][p] # NoResp => resp'[i][p] = resp[i][p]]_vars
    /\ \A i \in Impls, p \in Procs :
          (pc[i][p] \in {"awaitAuth", "awaitCrm"}) ~> (pc[i][p] = "done")

\* C20 witness: one invocation went through the exchange and the CRM POST and
\* answered 200, another was answered 405 at once.
C20_Witness ==
    \E i \in deployed, p \in Procs, q \in Procs :
        /\ pc[i][p] = "done" /\ authCalls[i][p] = 1 /\ crmCalls[i][p] = 1
        /\ resp[i][p].status = 200
        /\ pc[i][q] = "done" /\ resp[i][q].status = 405

====
